---- MODULE Spec2Model ----
(***************************************************************************)
(* A model of tfpecker.py (class TerraformPacker).                         *)
(*                                                                         *)
(* Text is modelled as a sequence of one-character strings, a path as the  *)
(* sequence of its components (pathlib's parts), so that substring tests,  *)
(* glob matching, lower-casing, trimming and path ordering are computed    *)
(* the way the Python code computes them.  The directory tree holds        *)
(* regular files only and the output file can always be opened.            *)
(***************************************************************************)
EXTENDS Integers, Sequences, FiniteSets, TLC

VARIABLES
    base_path,        \* self.base_path, as path components ("." has none)
    remove_comments,  \* self.remove_comments
    include_tfvars,   \* self.include_tfvars
    include_readme,   \* self.include_readme
    default_ignore,   \* self.default_ignore
    fs,               \* the tree under base_path: relative path -> content
    pc,               \* position in find_relevant_files / pack_files
    relevant_files,   \* find_relevant_files: local relevant_files
    files,            \* pack_files: local files
    all_warnings,     \* pack_files: local all_warnings
    output,           \* the writes made to the output file, in order
    console,          \* what was printed, in order
    idx,              \* position of the current for-loop over files
    caller,           \* who called find_relevant_files: "pack" or "api"
    ignore_at_call,   \* history: default_ignore when find_relevant_files began
    results,          \* history: what each direct call of find_relevant_files returned
    prescan_reads,    \* history: outcome of each read of the first pass
    content_reads,    \* history: outcome of each read of the content pass
    mods,             \* history: number of file changes made during the run
    arg,              \* argument of a direct call of a text function
    ret,              \* its result
    retw,             \* the result of warn_about_potential_secrets
    prev_warnings     \* history: all_warnings before the statement that last assigned it

vars == <<base_path, remove_comments, include_tfvars, include_readme,
          default_ignore, fs, pc, relevant_files, files, all_warnings,
          output, console, idx, caller, ignore_at_call, results,
          prescan_reads, content_reads, mods, arg, ret, retw,
          prev_warnings>>

----------------------------------------------------------------------------
(* Bounds *)

\* largest number of files in a tree the discovery is run on
MaxTreeFiles == 3
\* largest number of direct calls of find_relevant_files on one object
MaxCalls == 2
\* largest number of changes to files while pack_files runs
MaxMods == 1
\* largest number of failed reads in one run of pack_files
MaxReadFailures == 1
\* longest generated input of the text functions
MaxLen == 3

----------------------------------------------------------------------------
(* Characters and strings *)

\* the characters in use, in code point order
CharOrder ==
    <<"\t","\n"," ","!","\"","#","*","-",".","/","0","1","2","3","4","5","6","7","8","9",":","=","A","B","C","D","E","F","G","H","I","J","K","L","M","N","O","P","Q","R","S","T","U","V","W","X","Y","Z","_","a","b","c","d","e","f","g","h","i","j","k","l","m","n","o","p","q","r","s","t","u","v","w","x","y","z","{","}","~">>

Ord(c) == CHOOSE n \in 1..Len(CharOrder) : CharOrder[n] = c

UpperChars == <<"A","B","C","D","E","F","G","H","I","J","K","L","M","N","O","P","Q","R","S","T","U","V","W","X","Y","Z">>
LowerChars == <<"a","b","c","d","e","f","g","h","i","j","k","l","m","n","o","p","q","r","s","t","u","v","w","x","y","z">>

\* str.lower, one character
LowerChar(c) ==
    IF \E n \in 1..Len(UpperChars) : UpperChars[n] = c
    THEN LowerChars[CHOOSE n \in 1..Len(UpperChars) : UpperChars[n] = c]
    ELSE c

\* str.lower
Lower(s) == [n \in 1..Len(s) |-> LowerChar(s[n])]

\* the characters str.strip and str.lstrip remove
Whitespace == {" ", "\t", "\n"}

\* s[k:k+len(t)] == t
OccursAt(t, s, k) ==
    /\ k + Len(t) - 1 <= Len(s)
    /\ \A n \in 1..Len(t) : s[k + n - 1] = t[n]

\* t in s
IsSubstr(t, s) == \E k \in 1..(Len(s) + 1) : OccursAt(t, s, k)

\* s.startswith(t)
StartsWith(s, t) == OccursAt(t, s, 1)

\* s.endswith(t)
EndsWith(s, t) == Len(t) <= Len(s) /\ OccursAt(t, s, Len(s) - Len(t) + 1)

\* s.lstrip()
RECURSIVE LStrip(_)
LStrip(s) ==
    IF s # <<>> /\ Head(s) \in Whitespace THEN LStrip(Tail(s)) ELSE s

\* the right half of s.strip()
RECURSIVE RStrip(_)
RStrip(s) ==
    IF s # <<>> /\ s[Len(s)] \in Whitespace
    THEN RStrip(SubSeq(s, 1, Len(s) - 1))
    ELSE s

\* s.strip()
Strip(s) == RStrip(LStrip(s))

\* s.split('\n'): never empty, one more element than there are newlines
RECURSIVE SplitLinesFrom(_, _)
SplitLinesFrom(s, cur) ==
    IF s = <<>> THEN <<cur>>
    ELSE IF Head(s) = "\n" THEN <<cur>> \o SplitLinesFrom(Tail(s), <<>>)
    ELSE SplitLinesFrom(Tail(s), Append(cur, Head(s)))

SplitLines(s) == SplitLinesFrom(s, <<>>)

\* sep.join(parts)
RECURSIVE Join(_, _)
Join(sep, parts) ==
    IF parts = <<>> THEN <<>>
    ELSE IF Len(parts) = 1 THEN parts[1]
    ELSE parts[1] \o sep \o Join(sep, Tail(parts))

----------------------------------------------------------------------------
(* Paths *)

\* str(path)
StrPath(p) == Join(<<"/">>, p)

\* path.name
Name(p) == p[Len(p)]

\* base_path / rel
JoinPath(base, rel) == base \o rel

\* file.relative_to(self.base_path)
RelativeTo(p, base) == SubSeq(p, Len(base) + 1, Len(p))

\* str < str: by code point, a proper prefix first
RECURSIVE StrLess(_, _)
StrLess(s, t) ==
    IF t = <<>> THEN FALSE
    ELSE IF s = <<>> THEN TRUE
    ELSE IF Head(s) = Head(t) THEN StrLess(Tail(s), Tail(t))
    ELSE Ord(Head(s)) < Ord(Head(t))

\* Path < Path: pathlib compares the lists of components
RECURSIVE PathLess(_, _)
PathLess(p, q) ==
    IF q = <<>> THEN FALSE
    ELSE IF p = <<>> THEN TRUE
    ELSE IF Head(p) = Head(q) THEN PathLess(Tail(p), Tail(q))
    ELSE StrLess(Head(p), Head(q))

\* insertion of p into a sorted sequence, after its equals
RECURSIVE Insert(_, _)
Insert(p, sq) ==
    IF sq = <<>> THEN <<p>>
    ELSE IF PathLess(p, Head(sq)) THEN <<p>> \o sq
    ELSE <<Head(sq)>> \o Insert(p, Tail(sq))

\* sorted(relevant_files)
RECURSIVE Sorted(_)
Sorted(sq) ==
    IF sq = <<>> THEN <<>>
    ELSE Insert(sq[Len(sq)], Sorted(SubSeq(sq, 1, Len(sq) - 1)))

\* fnmatch of a file name against a pattern that is a literal name or "*" + suffix
Matches(name, pattern) ==
    IF Head(pattern) = "*" THEN EndsWith(name, Tail(pattern))
    ELSE name = pattern

\* the orders in which one rglob may yield the paths of set S
Orders(S) ==
    {o \in [1..Cardinality(S) -> S] : \A a, b \in DOMAIN o : a # b => o[a] # o[b]}

\* the paths self.base_path.rglob(pattern) yields
Rglob(pattern) ==
    {JoinPath(base_path, rel) : rel \in {r \in DOMAIN fs : Matches(Name(r), pattern)}}

----------------------------------------------------------------------------
(* __init__ *)

BaseIgnore ==
    { <<"*",".","t","f","s","t","a","t","e">>, <<"*",".","t","f","s","t","a","t","e",".","b","a","c","k","u","p">>, <<".","t","e","r","r","a","f","o","r","m">>,
      <<".","t","e","r","r","a","f","o","r","m",".","l","o","c","k",".","h","c","l">>, <<"c","r","a","s","h",".","l","o","g">>, <<"o","v","e","r","r","i","d","e",".","t","f">>,
      <<"o","v","e","r","r","i","d","e",".","t","f",".","j","s","o","n">>,
      <<".","g","i","t">>, <<".","g","i","t","i","g","n","o","r","e">>, <<".","s","v","n">>, <<".","h","g">>,
      <<".","i","d","e","a">>, <<".","v","s","c","o","d","e">>, <<"*",".","s","w","p">>, <<"*",".","s","w","o">>, <<"*",".","s","w","n">>, <<"*","~">>,
      <<".","D","S","_","S","t","o","r","e">>, <<"T","h","u","m","b","s",".","d","b">>,
      <<"n","o","d","e","_","m","o","d","u","l","e","s">>, <<"v","e","n","d","o","r">>, <<"_","_","p","y","c","a","c","h","e","_","_">>, <<"*",".","p","y","c">>,
      <<"*",".","l","o","g">>, <<"l","o","g","s">>,
      <<".","e","n","v">>, <<".","e","n","v","r","c">>, <<".","d","i","r","e","n","v">>,
      <<"d","o","c","s">>, <<"*",".","m","d">> }

MdPattern == <<"*",".","m","d">>

TfPattern == <<"*",".","t","f">>

TfvarsPatterns == << <<"*",".","t","f","v","a","r","s">>, <<"*",".","t","f","v","a","r","s",".","j","s","o","n">>, <<"*",".","a","u","t","o",".","t","f","v","a","r","s">> >>

ReadmePatterns == << <<"R","E","A","D","M","E",".","m","d">>, <<"R","E","A","D","M","E",".","m","a","r","k","d","o","w","n">>, <<"R","e","a","d","m","e",".","m","d">> >>

\* self.default_ignore as __init__ leaves it
InitIgnore(tfvars) ==
    IF ~tfvars
    THEN BaseIgnore \cup {TfvarsPatterns[n] : n \in 1..Len(TfvarsPatterns)}
    ELSE BaseIgnore

\* the variant that tests the file name instead of the whole path string
IsIgnoredByName(p, ignore) == \E g \in ignore : IsSubstr(g, Name(p))

\* any(ignore in str(path) for ignore in self.default_ignore)
IsIgnored(p, ignore) == \E g \in ignore : IsSubstr(g, StrPath(p))

\* the paths one rglob of the pattern adds to relevant_files
Kept(pattern) == {p \in Rglob(pattern) : ~IsIgnored(p, default_ignore)}

----------------------------------------------------------------------------
(* remove_terraform_comments *)

BlockOpen == <<"/","*">>
BlockClose == <<"*","/">>

\* where the first "*/" at or after position k of s starts, 0 when there is none
FirstClose(s, k) ==
    IF \E n \in k..Len(s) : OccursAt(BlockClose, s, n)
    THEN CHOOSE n \in k..Len(s) :
             /\ OccursAt(BlockClose, s, n)
             /\ \A m \in k..(n - 1) : ~OccursAt(BlockClose, s, m)
    ELSE 0

\* re.sub(r'/\*.*?\*/', '', content, flags=re.DOTALL): leftmost matches, each
\* ending at the first "*/" that starts after its "/*"
RECURSIVE SubBlockComments(_)
SubBlockComments(s) ==
    IF s = <<>> THEN <<>>
    ELSE IF OccursAt(BlockOpen, s, 1) /\ FirstClose(s, 3) # 0
         THEN SubBlockComments(SubSeq(s, FirstClose(s, 3) + 2, Len(s)))
         ELSE <<Head(s)>> \o SubBlockComments(Tail(s))

\* not line.lstrip().startswith('#')
IsKeptLine(line) == ~StartsWith(LStrip(line), <<"#">>)

\* the variant that also treats "//" as a comment marker
remove_terraform_comments_slashes(content) ==
    Join(<<"\n">>,
         SelectSeq(SplitLines(SubBlockComments(content)),
                   LAMBDA l : IsKeptLine(l) /\ ~StartsWith(LStrip(l), <<"/","/">>)))

remove_terraform_comments(content) ==
    Join(<<"\n">>, SelectSeq(SplitLines(SubBlockComments(content)), IsKeptLine))

----------------------------------------------------------------------------
(* warn_about_potential_secrets *)

keywords ==
    << <<"p","a","s","s","w","o","r","d">>, <<"s","e","c","r","e","t">>, <<"k","e","y">>, <<"t","o","k","e","n">>, <<"c","r","e","d","e","n","t","i","a","l">>,
       <<"a","p","i","_","k","e","y">>, <<"a","c","c","e","s","s","_","k","e","y">> >>

\* any(keyword in lower_line for keyword in keywords)
HasKeyword(line) ==
    \E n \in 1..Len(keywords) : IsSubstr(keywords[n], Lower(line))

\* the warning of line number n: f"Line {i} might contain sensitive information: {line.strip()}"
LineWarning(n, line) == [line |-> n, text |-> Strip(line)]

\* the loop over enumerate(lines, 1), from line number n on
RECURSIVE WarnFrom(_, _)
WarnFrom(lines, n) ==
    IF n > Len(lines) THEN <<>>
    ELSE (IF HasKeyword(lines[n]) THEN <<LineWarning(n, lines[n])>> ELSE <<>>)
         \o WarnFrom(lines, n + 1)

\* the variant that tests the line without lower-casing it
RECURSIVE WarnFromCaseSensitive(_, _)
WarnFromCaseSensitive(lines, n) ==
    IF n > Len(lines) THEN <<>>
    ELSE (IF \E m \in 1..Len(keywords) : IsSubstr(keywords[m], lines[n])
          THEN <<LineWarning(n, lines[n])>> ELSE <<>>)
         \o WarnFromCaseSensitive(lines, n + 1)

warn_about_potential_secrets_case_sensitive(content) ==
    WarnFromCaseSensitive(SplitLines(content), 1)

warn_about_potential_secrets(content) == WarnFrom(SplitLines(content), 1)

----------------------------------------------------------------------------
(* find_relevant_files *)

\* line 72-74: the *.tf pass
FindTf ==
    /\ pc = "find_tf"
    /\ \E o \in Orders(Kept(TfPattern)) :
           relevant_files' = relevant_files \o o
    /\ pc' = "find_tfvars"
    /\ UNCHANGED <<base_path, remove_comments, include_tfvars, include_readme,
                   default_ignore, fs, files, all_warnings, output, console,
                   idx, caller, ignore_at_call, results, prescan_reads,
                   content_reads, mods, arg, ret, retw,
                   prev_warnings>>

\* the variant that adds a file found by an earlier variable-file pattern once only
FindTfvarsOncePerFile ==
    /\ pc = "find_tfvars"
    /\ IF include_tfvars
       THEN \E o1 \in Orders(Kept(TfvarsPatterns[1])),
               o2 \in Orders(Kept(TfvarsPatterns[2])),
               o3 \in Orders(Kept(TfvarsPatterns[3])) :
                relevant_files' =
                    relevant_files \o o1
                    \o SelectSeq(o2, LAMBDA p : \A n \in 1..Len(o1) : o1[n] # p)
                    \o SelectSeq(o3, LAMBDA p : \A n \in 1..Len(o1) : o1[n] # p)
       ELSE relevant_files' = relevant_files
    /\ pc' = "find_readme"
    /\ UNCHANGED <<base_path, remove_comments, include_tfvars, include_readme,
                   default_ignore, fs, files, all_warnings, output, console,
                   idx, caller, ignore_at_call, results, prescan_reads,
                   content_reads, mods, arg, ret, retw,
                   prev_warnings>>

\* line 76-81: the three variable-file passes, when enabled
FindTfvars ==
    /\ pc = "find_tfvars"
    /\ IF include_tfvars
       THEN \E o1 \in Orders(Kept(TfvarsPatterns[1])),
               o2 \in Orders(Kept(TfvarsPatterns[2])),
               o3 \in Orders(Kept(TfvarsPatterns[3])) :
                relevant_files' = relevant_files \o o1 \o o2 \o o3
       ELSE relevant_files' = relevant_files
    /\ pc' = "find_readme"
    /\ UNCHANGED <<base_path, remove_comments, include_tfvars, include_readme,
                   default_ignore, fs, files, all_warnings, output, console,
                   idx, caller, ignore_at_call, results, prescan_reads,
                   content_reads, mods, arg, ret, retw,
                   prev_warnings>>

\* line 84-85: set.remove raises KeyError when the element is absent
FindReadmeRemove ==
    /\ pc = "find_readme"
    /\ IF include_readme
       THEN IF MdPattern \in default_ignore
            THEN /\ default_ignore' = default_ignore \ {MdPattern}
                 /\ pc' = "readme_glob"
            ELSE /\ default_ignore' = default_ignore
                 /\ pc' = "raised"
       ELSE /\ default_ignore' = default_ignore
            /\ pc' = "find_return"
    /\ UNCHANGED <<base_path, remove_comments, include_tfvars, include_readme,
                   fs, relevant_files, files, all_warnings, output, console,
                   idx, caller, ignore_at_call, results, prescan_reads,
                   content_reads, mods, arg, ret, retw,
                   prev_warnings>>

\* line 86-90: the three README passes
FindReadmeGlob ==
    /\ pc = "readme_glob"
    /\ \E o1 \in Orders(Kept(ReadmePatterns[1])),
          o2 \in Orders(Kept(ReadmePatterns[2])),
          o3 \in Orders(Kept(ReadmePatterns[3])) :
           relevant_files' = relevant_files \o o1 \o o2 \o o3
    /\ pc' = "readme_add"
    /\ UNCHANGED <<base_path, remove_comments, include_tfvars, include_readme,
                   default_ignore, fs, files, all_warnings, output, console,
                   idx, caller, ignore_at_call, results, prescan_reads,
                   content_reads, mods, arg, ret, retw,
                   prev_warnings>>

\* the variant that leaves `*.md` out of the ignore set
FindReadmeAddSkipped ==
    /\ pc = "readme_add"
    /\ pc' = "find_return"
    /\ UNCHANGED <<base_path, remove_comments, include_tfvars, include_readme,
                   default_ignore, fs, relevant_files, files, all_warnings,
                   output, console, idx, caller, ignore_at_call, results,
                   prescan_reads, content_reads, mods, arg, ret, retw,
                   prev_warnings>>

\* line 91
FindReadmeAdd ==
    /\ pc = "readme_add"
    /\ default_ignore' = default_ignore \cup {MdPattern}
    /\ pc' = "find_return"
    /\ UNCHANGED <<base_path, remove_comments, include_tfvars, include_readme,
                   fs, relevant_files, files, all_warnings, output, console,
                   idx, caller, ignore_at_call, results, prescan_reads,
                   content_reads, mods, arg, ret, retw,
                   prev_warnings>>

\* line 93, returning to a direct caller
FindReturn ==
    /\ pc = "find_return"
    /\ caller = "api"
    /\ results' = Append(results, Sorted(relevant_files))
    /\ pc' = "idle"
    /\ UNCHANGED <<base_path, remove_comments, include_tfvars, include_readme,
                   default_ignore, fs, relevant_files, files, all_warnings,
                   output, console, idx, caller, ignore_at_call,
                   prescan_reads, content_reads, mods, arg, ret, retw,
                   prev_warnings>>

\* a direct call of find_relevant_files (line 67-69)
CallFind ==
    /\ pc = "idle"
    /\ Len(results) < MaxCalls
    /\ caller' = "api"
    /\ relevant_files' = <<>>
    /\ ignore_at_call' = default_ignore
    /\ pc' = "find_tf"
    /\ UNCHANGED <<base_path, remove_comments, include_tfvars, include_readme,
                   default_ignore, fs, files, all_warnings, output, console,
                   idx, results, prescan_reads, content_reads, mods, arg, ret,
                   retw,
                   prev_warnings>>

----------------------------------------------------------------------------
(* Trees and inputs *)

Bases == { <<>>, <<<<"i","n","f","r","a">>>>, <<<<"m","y","d","o","c","s">>>> }

DiscoverPaths ==
    { <<<<"a",".","t","f">>>>, <<<<"b",".","t","f">>>>, <<<<".","t","e","r","r","a","f","o","r","m">>, <<"c","a","c","h","e",".","t","f">>>>, <<<<"a">>, <<"b",".","t","f">>>>,
      <<<<"m","y","d","o","c","s">>, <<"m",".","t","f">>>>, <<<<"x",".","t","f","v","a","r","s">>>>, <<<<"x",".","a","u","t","o",".","t","f","v","a","r","s">>>>,
      <<<<"x",".","t","f","v","a","r","s",".","j","s","o","n">>>>, <<<<"R","E","A","D","M","E",".","m","d">>>>, <<<<"n","o","t","e","s",".","m","d">>>>, <<<<"m">>, <<"R","e","a","d","m","e",".","m","d">>>> }

PlainContent == <<"a"," ","="," ","1">>

\* the trees of at most n files of P, each with a content of C
Trees(P, C, n) ==
    UNION {[S -> C] : S \in {T \in SUBSET P : Cardinality(T) <= n}}

\* the strings over alphabet A of length at most n
RECURSIVE Strings(_, _)
Strings(A, n) ==
    IF n = 0 THEN {<<>>}
    ELSE LET shorter == Strings(A, n - 1)
         IN shorter \cup {Append(s, c) : s \in shorter, c \in A}

TextAlphabet == {"/", "*", "#", "\n", " ", "k", "e", "y", "K"}

StripExample == <<"/","*"," ","s","e","c","r","e","t","\n","k","e","y","=","1"," ","*","/","\n","#"," ","c","o","m","m","e","n","t","\n","r","e","s","o","u","r","c","e"," ","\"","x","\""," ","{","}","\n","/","/"," ","n","o","t"," ","a"," ","c","o","m","m","e","n","t">>

StripExampleClaimed == <<"r","e","s","o","u","r","c","e"," ","\"","x","\""," ","{","}","\n","/","/"," ","n","o","t"," ","a"," ","c","o","m","m","e","n","t">>

ScanExample == <<"A","P","I","_","K","E","Y"," ","="," ","\"","a","b","c","\"","\n","f","i","n","e"," ","l","i","n","e","\n","P","a","s","s","w","o","r","d",":"," ","x","y","z">>

TextInputs ==
    Strings(TextAlphabet, MaxLen)
    \cup { StripExample, ScanExample,
           <<" "," ","#"," ","x","\n","\t","#","y","\n","z"," ","#","\n">>,
           <<"a"," ","/","*"," ","b"," ","*","/"," ","c"," ","/","*"," ","d","\n","*","/"," ","e","\n">>,
           <<"/","*","/"," ","x"," ","*","/"," ","y"," ","/","*"," ","z">>,
           <<"s","e","c","r","e","t","_","k","e","y"," ","t","o","k","e","n","\n","\n"," "," ","m","y"," ","C","r","e","d","e","n","t","i","a","l"," "," ","\n","o","k","\n","A","C","C","E","S","S","_","K","E","Y">> }

\* the state a constructed object and an idle run share
InitCommon ==
    /\ default_ignore = InitIgnore(include_tfvars)
    /\ relevant_files = <<>>
    /\ files = <<>>
    /\ all_warnings = <<>>
    /\ output = <<>>
    /\ console = <<>>
    /\ idx = 1
    /\ caller = "none"
    /\ ignore_at_call = {}
    /\ results = <<>>
    /\ prescan_reads = <<>>
    /\ content_reads = <<>>
    /\ mods = 0
    /\ ret = <<>>
    /\ retw = <<>>
    /\ prev_warnings = <<>>

----------------------------------------------------------------------------
(* Direct calls of find_relevant_files on a constructed object *)

InitDiscover ==
    /\ base_path \in Bases
    /\ remove_comments = FALSE
    /\ include_tfvars \in BOOLEAN
    /\ include_readme \in BOOLEAN
    /\ fs \in Trees(DiscoverPaths, {PlainContent}, MaxTreeFiles)
    /\ pc = "idle"
    /\ arg = <<>>
    /\ InitCommon

NextDiscover ==
    \/ CallFind
    \/ FindTf
    \/ FindTfvars
    \/ FindReadmeRemove
    \/ FindReadmeGlob
    \/ FindReadmeAdd
    \/ FindReturn

SpecDiscover == InitDiscover /\ [][NextDiscover]_vars

----------------------------------------------------------------------------
(* Direct calls of the two text functions *)

CallRemoveComments ==
    /\ pc = "text_call"
    /\ ret' = remove_terraform_comments(arg)
    /\ pc' = "text_stripped"
    /\ UNCHANGED <<base_path, remove_comments, include_tfvars, include_readme,
                   default_ignore, fs, relevant_files, files, all_warnings,
                   output, console, idx, caller, ignore_at_call, results,
                   prescan_reads, content_reads, mods, arg, retw,
                   prev_warnings>>

CallWarn ==
    /\ pc = "text_call"
    /\ retw' = warn_about_potential_secrets(arg)
    /\ pc' = "text_warned"
    /\ UNCHANGED <<base_path, remove_comments, include_tfvars, include_readme,
                   default_ignore, fs, relevant_files, files, all_warnings,
                   output, console, idx, caller, ignore_at_call, results,
                   prescan_reads, content_reads, mods, arg, ret,
                   prev_warnings>>

InitText ==
    /\ base_path = <<>>
    /\ remove_comments = FALSE
    /\ include_tfvars = FALSE
    /\ include_readme = FALSE
    /\ fs = <<>>
    /\ pc = "text_call"
    /\ arg \in TextInputs
    /\ InitCommon

NextText == CallRemoveComments \/ CallWarn

SpecText == InitText /\ [][NextText]_vars

----------------------------------------------------------------------------
(* pack_files *)

NoWarning == [path |-> <<>>, line |-> 0, text |-> <<>>]

\* one output.write or print call: what it writes, and the value formatted
\* into it
Write(kind) ==
    [kind |-> kind, path |-> <<>>, text |-> <<>>, warning |-> NoWarning, n |-> 0]

WritePath(kind, p) == [Write(kind) EXCEPT !.path = p]

WriteText(kind, t) == [Write(kind) EXCEPT !.text = t]

WriteWarning(kind, w) == [Write(kind) EXCEPT !.warning = w]

WriteCount(kind, n) == [Write(kind) EXCEPT !.n = n]

\* [f"{relative_path}: {w}" for w in warnings]
Tagged(rel, ws) ==
    [n \in 1..Len(ws) |-> [path |-> rel, line |-> ws[n].line, text |-> ws[n].text]]

\* line 152-154 and 203-205: the list a banner holds, when there are warnings
WarningList(ws) ==
    IF ws # <<>>
    THEN <<Write("Potential sensitive information detected:")>>
         \o [n \in 1..Len(ws) |-> WriteWarning("- warning", ws[n])]
    ELSE <<>>

\* line 157-161: the same list on the console
ConsoleList(ws) ==
    IF ws # <<>>
    THEN <<Write("!rule"), Write("SECURITY WARNING")>>
         \o [n \in 1..Len(ws) |-> WriteWarning("- warning", ws[n])]
         \o <<Write("!rule")>>
    ELSE <<>>

\* the variant that strips comments whatever the flag
ToWriteAlwaysStripped(content) == remove_terraform_comments(content)

\* line 184-185: the content that is scanned and written in the content pass
ToWrite(content) ==
    IF remove_comments THEN remove_terraform_comments(content) ELSE content

\* the number of reads that have failed so far
Failures ==
    Cardinality({n \in 1..Len(prescan_reads) : ~prescan_reads[n].ok})
    + Cardinality({n \in 1..Len(content_reads) : ~content_reads[n].ok})

\* line 126: pack_files calls find_relevant_files
PackStart ==
    /\ pc = "start"
    /\ caller' = "pack"
    /\ relevant_files' = <<>>
    /\ ignore_at_call' = default_ignore
    /\ pc' = "find_tf"
    /\ UNCHANGED <<base_path, remove_comments, include_tfvars, include_readme,
                   default_ignore, fs, files, all_warnings, output, console,
                   idx, results, prescan_reads, content_reads, mods, arg, ret,
                   retw,
                   prev_warnings>>

\* line 93 and 126-137: the sorted result becomes files, the output is
\* opened, the title and the head of the leading banner are written
PackOpen ==
    /\ pc = "find_return"
    /\ caller = "pack"
    /\ files' = Sorted(relevant_files)
    /\ all_warnings' = <<>>
    /\ output' = << Write("title"), Write("=rule"), Write("!rule"),
                    Write("IMPORTANT: VERIFY FOR SECRETS!"),
                    Write("Double-check this file") >>
    /\ idx' = 1
    /\ pc' = "prescan"
    /\ prev_warnings' = all_warnings
    /\ UNCHANGED <<base_path, remove_comments, include_tfvars, include_readme,
                   default_ignore, fs, relevant_files, console, caller,
                   ignore_at_call, results, prescan_reads, content_reads,
                   mods, arg, ret, retw>>

\* the variant without the try/except around the read
PreScanFileNoCatch ==
    /\ pc = "prescan"
    /\ idx <= Len(files)
    /\ LET rel == RelativeTo(files[idx], base_path)
       IN \/ /\ all_warnings' =
                    all_warnings \o Tagged(rel, warn_about_potential_secrets(fs[rel]))
             /\ prescan_reads' =
                    Append(prescan_reads, [ok |-> TRUE, content |-> fs[rel]])
             /\ console' = console
             /\ idx' = idx + 1
             /\ pc' = pc
          \/ /\ Failures < MaxReadFailures
             /\ console' = console
             /\ prescan_reads' =
                    Append(prescan_reads, [ok |-> FALSE, content |-> <<>>])
             /\ all_warnings' = all_warnings
             /\ idx' = idx
             /\ pc' = "raised"
    /\ prev_warnings' = all_warnings
    /\ UNCHANGED <<base_path, remove_comments, include_tfvars, include_readme,
                   default_ignore, fs, relevant_files, files, output,
                   caller, ignore_at_call, results, content_reads, mods, arg,
                   ret, retw>>

\* line 140-149: one iteration of the first pass; the read may fail
PreScanFile ==
    /\ pc = "prescan"
    /\ idx <= Len(files)
    /\ LET rel == RelativeTo(files[idx], base_path)
       IN \/ /\ all_warnings' =
                    all_warnings \o Tagged(rel, warn_about_potential_secrets(fs[rel]))
             /\ prescan_reads' =
                    Append(prescan_reads, [ok |-> TRUE, content |-> fs[rel]])
             /\ console' = console
          \/ /\ Failures < MaxReadFailures
             /\ console' =
                    Append(console, WritePath("Error reading file for security check", files[idx]))
             /\ prescan_reads' =
                    Append(prescan_reads, [ok |-> FALSE, content |-> <<>>])
             /\ all_warnings' = all_warnings
    /\ idx' = idx + 1
    /\ prev_warnings' = all_warnings
    /\ UNCHANGED <<base_path, remove_comments, include_tfvars, include_readme,
                   default_ignore, fs, pc, relevant_files, files, output,
                   caller, ignore_at_call, results, content_reads, mods, arg,
                   ret, retw>>

\* line 151-163: the warning list of the leading banner, also printed, and
\* the end of the banner
LeadingBanner ==
    /\ pc = "prescan"
    /\ idx > Len(files)
    /\ output' = output \o WarningList(all_warnings) \o << Write("!rule+blank") >>
    /\ console' = console \o ConsoleList(all_warnings)
    /\ pc' = "structure"
    /\ UNCHANGED <<base_path, remove_comments, include_tfvars, include_readme,
                   default_ignore, fs, relevant_files, files, all_warnings,
                   idx, caller, ignore_at_call, results, prescan_reads,
                   content_reads, mods, arg, ret, retw,
                   prev_warnings>>

\* the variant that lists the paths with the base directory
StructureSectionFullPaths ==
    /\ pc = "structure"
    /\ output' = output
                 \o << Write("Repository Structure"), Write("=rule20") >>
                 \o [n \in 1..Len(files) |->
                        WritePath("structure line", files[n])]
                 \o << Write("File Contents"), Write("=rule20") >>
    /\ idx' = 1
    /\ pc' = "contents"
    /\ UNCHANGED <<base_path, remove_comments, include_tfvars, include_readme,
                   default_ignore, fs, relevant_files, files, all_warnings,
                   console, caller, ignore_at_call, results, prescan_reads,
                   content_reads, mods, arg, ret, retw,
                   prev_warnings>>

\* line 165-174: the structure section, one line per element of files, and
\* the head of the content section
StructureSection ==
    /\ pc = "structure"
    /\ output' = output
                 \o << Write("Repository Structure"), Write("=rule20") >>
                 \o [n \in 1..Len(files) |->
                        WritePath("structure line", RelativeTo(files[n], base_path))]
                 \o << Write("File Contents"), Write("=rule20") >>
    /\ idx' = 1
    /\ pc' = "contents"
    /\ UNCHANGED <<base_path, remove_comments, include_tfvars, include_readme,
                   default_ignore, fs, relevant_files, files, all_warnings,
                   console, caller, ignore_at_call, results, prescan_reads,
                   content_reads, mods, arg, ret, retw,
                   prev_warnings>>

\* the variant that puts the new warnings in front of the accumulator
ContentFilePrepends ==
    /\ pc = "contents"
    /\ idx <= Len(files)
    /\ LET rel == RelativeTo(files[idx], base_path)
           head == << WritePath("File:", rel),
                      WriteCount("-underline", Len(StrPath(rel)) + 6) >>
       IN \/ /\ all_warnings' =
                    Tagged(rel, warn_about_potential_secrets(ToWrite(fs[rel])))
                    \o all_warnings
             /\ output' = output \o head
                          \o << WriteText("content", ToWrite(fs[rel])), Write("blank") >>
             /\ content_reads' =
                    Append(content_reads, [ok |-> TRUE, content |-> fs[rel]])
          \/ /\ Failures < MaxReadFailures
             /\ output' = output \o head
                          \o << WritePath("Error reading file", files[idx]), Write("blank") >>
             /\ content_reads' =
                    Append(content_reads, [ok |-> FALSE, content |-> <<>>])
             /\ all_warnings' = all_warnings
    /\ idx' = idx + 1
    /\ prev_warnings' = all_warnings
    /\ UNCHANGED <<base_path, remove_comments, include_tfvars, include_readme,
                   default_ignore, fs, pc, relevant_files, files, console,
                   caller, ignore_at_call, results, prescan_reads, mods, arg,
                   ret, retw>>

\* the variant that appends only the warnings the accumulator does not hold
ContentFileOnlyNew ==
    /\ pc = "contents"
    /\ idx <= Len(files)
    /\ LET rel == RelativeTo(files[idx], base_path)
           head == << WritePath("File:", rel),
                      WriteCount("-underline", Len(StrPath(rel)) + 6) >>
       IN \/ /\ all_warnings' =
                    all_warnings
                    \o SelectSeq(Tagged(rel, warn_about_potential_secrets(ToWrite(fs[rel]))),
                                 LAMBDA w : \A n \in 1..Len(all_warnings) : all_warnings[n] # w)
             /\ output' = output \o head
                          \o << WriteText("content", ToWrite(fs[rel])), Write("blank") >>
             /\ content_reads' =
                    Append(content_reads, [ok |-> TRUE, content |-> fs[rel]])
          \/ /\ Failures < MaxReadFailures
             /\ output' = output \o head
                          \o << WritePath("Error reading file", files[idx]), Write("blank") >>
             /\ content_reads' =
                    Append(content_reads, [ok |-> FALSE, content |-> <<>>])
             /\ all_warnings' = all_warnings
    /\ idx' = idx + 1
    /\ prev_warnings' = all_warnings
    /\ UNCHANGED <<base_path, remove_comments, include_tfvars, include_readme,
                   default_ignore, fs, pc, relevant_files, files, console,
                   caller, ignore_at_call, results, prescan_reads, mods, arg,
                   ret, retw>>

\* line 176-196: one block of the content section; the read may fail
ContentFile ==
    /\ pc = "contents"
    /\ idx <= Len(files)
    /\ LET rel == RelativeTo(files[idx], base_path)
           head == << WritePath("File:", rel),
                      WriteCount("-underline", Len(StrPath(rel)) + 6) >>
       IN \/ /\ all_warnings' =
                    all_warnings
                    \o Tagged(rel, warn_about_potential_secrets(ToWrite(fs[rel])))
             /\ output' = output \o head
                          \o << WriteText("content", ToWrite(fs[rel])), Write("blank") >>
             /\ content_reads' =
                    Append(content_reads, [ok |-> TRUE, content |-> fs[rel]])
          \/ /\ Failures < MaxReadFailures
             /\ output' = output \o head
                          \o << WritePath("Error reading file", files[idx]), Write("blank") >>
             /\ content_reads' =
                    Append(content_reads, [ok |-> FALSE, content |-> <<>>])
             /\ all_warnings' = all_warnings
    /\ idx' = idx + 1
    /\ prev_warnings' = all_warnings
    /\ UNCHANGED <<base_path, remove_comments, include_tfvars, include_readme,
                   default_ignore, fs, pc, relevant_files, files, console,
                   caller, ignore_at_call, results, prescan_reads, mods, arg,
                   ret, retw>>

\* line 198-206: the trailing banner; the output is closed
TrailingBanner ==
    /\ pc = "contents"
    /\ idx > Len(files)
    /\ output' = output
                 \o << Write("blank+!rule"),
                       Write("IMPORTANT: VERIFY FOR SECRETS!"),
                       Write("Double-check this file") >>
                 \o WarningList(all_warnings)
                 \o << Write("!rule") >>
    /\ pc' = "done"
    /\ UNCHANGED <<base_path, remove_comments, include_tfvars, include_readme,
                   default_ignore, fs, relevant_files, files, all_warnings,
                   console, idx, caller, ignore_at_call, results,
                   prescan_reads, content_reads, mods, arg, ret, retw,
                   prev_warnings>>

----------------------------------------------------------------------------
(* A run of pack_files, on a tree another process may change *)

PackBases == { <<>>, <<<<"i","n","f","r","a">>>> }

PackPaths == { <<<<"a",".","t","f">>>>, <<<<"x",".","a","u","t","o",".","t","f","v","a","r","s">>>> }

PackContents ==
    { <<"a"," ","="," ","1">>,
      <<" ","T","o","k","e","n"," ","="," ","1","\n","/","*"," ","k","e","y"," ","*","/","\n","b">>,
      <<"#"," ","p","a","s","s","w","o","r","d">> }

\* another process rewrites a file between the two passes that read it (a
\* change before the first pass is a different initial tree)
ChangeFile ==
    /\ pc = "structure"
    /\ mods < MaxMods
    /\ \E rel \in DOMAIN fs, c \in PackContents :
           /\ c # fs[rel]
           /\ fs' = [fs EXCEPT ![rel] = c]
    /\ mods' = mods + 1
    /\ UNCHANGED <<base_path, remove_comments, include_tfvars, include_readme,
                   default_ignore, pc, relevant_files, files, all_warnings,
                   output, console, idx, caller, ignore_at_call, results,
                   prescan_reads, content_reads, arg, ret, retw,
                   prev_warnings>>

InitPack ==
    /\ base_path \in PackBases
    /\ remove_comments \in BOOLEAN
    /\ include_tfvars \in BOOLEAN
    /\ include_readme \in BOOLEAN
    /\ fs \in Trees(PackPaths, PackContents, Cardinality(PackPaths))
    /\ pc = "start"
    /\ arg = <<>>
    /\ InitCommon

NextPack ==
    \/ PackStart
    \/ FindTf
    \/ FindTfvars
    \/ FindReadmeRemove
    \/ FindReadmeGlob
    \/ FindReadmeAdd
    \/ PackOpen
    \/ PreScanFile
    \/ LeadingBanner
    \/ StructureSection
    \/ ContentFile
    \/ TrailingBanner
    \/ ChangeFile

SpecPack == InitPack /\ [][NextPack]_vars

----------------------------------------------------------------------------
(* Properties of remove_terraform_comments and warn_about_potential_secrets *)

\* C1, as the specification states it: comment stripping of the example
\* content yields exactly `resource "x" {}\n// not a comment`, with no
\* leading or trailing newline.
C1_AsClaimed ==
    (pc = "text_stripped" /\ arg = StripExample) => ret = StripExampleClaimed

\* C1, amended: comment stripping of the example content yields
\* `\nresource "x" {}\n// not a comment`: the block comment with its embedded
\* lines and the `#` line are removed and the `//` line is retained, but the
\* newline that followed the block comment stays, so the result begins with
\* one empty line; it has no trailing newline.
C1_StripExample ==
    (pc = "text_stripped" /\ arg = StripExample)
        => ret = <<"\n">> \o StripExampleClaimed

C1_Witness == pc = "text_stripped" /\ arg = StripExample

\* C4: a line gets a warning iff its lower-cased text contains one of the
\* seven keywords; a flagged line gets exactly one warning, with its 1-based
\* number and its original-case trimmed text; warnings are in increasing line
\* order; the example text yields exactly two warnings, for lines 1 and 3.
C4_Scan ==
    pc = "text_warned" =>
        LET lines == SplitLines(arg)
        IN /\ Len(keywords) = 7
           /\ \A n \in 1..Len(lines) :
                  (\E m \in 1..Len(keywords) : IsSubstr(keywords[m], Lower(lines[n])))
                      <=> (\E w \in 1..Len(retw) : retw[w].line = n)
           /\ \A w \in 1..Len(retw) :
                  /\ retw[w].line \in 1..Len(lines)
                  /\ retw[w].text = Strip(lines[retw[w].line])
           /\ \A v, w \in 1..Len(retw) : v < w => retw[v].line < retw[w].line
           /\ arg = ScanExample =>
                  retw = << [line |-> 1, text |-> <<"A","P","I","_","K","E","Y"," ","="," ","\"","a","b","c","\"">>],
                            [line |-> 3, text |-> <<"P","a","s","s","w","o","r","d",":"," ","x","y","z">>] >>

C4_Witness == pc = "text_warned" /\ arg = ScanExample /\ Len(retw) = 2

----------------------------------------------------------------------------
(* Properties of find_relevant_files *)

\* how often path p occurs in sequence r
Count(p, r) == Cardinality({k \in 1..Len(r) : r[k] = p})

\* the number of variable-file patterns a name matches
TfvarsMatches(name) ==
    Cardinality({n \in 1..Len(TfvarsPatterns) : Matches(name, TfvarsPatterns[n])})

ExampleTree == { <<<<"a",".","t","f">>>>, <<<<"b",".","t","f">>>>, <<<<".","t","e","r","r","a","f","o","r","m">>, <<"c","a","c","h","e",".","t","f">>>> }

\* C2: with default flags the result holds exactly the files under base_dir
\* whose name ends in .tf and whose full path string, base directory
\* included, contains no fragment of the ignore set, each once, in the
\* increasing order of paths (component by component); for a directory "."
\* holding a.tf, b.tf and .terraform/cache.tf the result is [a.tf, b.tf].
C2_DefaultDiscovery ==
    (~include_tfvars /\ ~include_readme) =>
        \A n \in 1..Len(results) :
            LET r == results[n]
                expected ==
                    {JoinPath(base_path, rel) : rel \in
                        {x \in DOMAIN fs :
                            /\ EndsWith(Name(x), <<".","t","f">>)
                            /\ \A g \in default_ignore :
                                   ~IsSubstr(g, StrPath(JoinPath(base_path, x)))}}
            IN /\ {r[k] : k \in 1..Len(r)} = expected
               /\ Len(r) = Cardinality(expected)
               /\ \A j, k \in 1..Len(r) : j < k => PathLess(r[j], r[k])
               /\ (base_path = <<>> /\ DOMAIN fs = ExampleTree)
                      => r = << <<<<"a",".","t","f">>>>, <<<<"b",".","t","f">>>> >>

C2_Witness ==
    /\ ~include_tfvars /\ ~include_readme
    /\ base_path = <<>> /\ DOMAIN fs = ExampleTree
    /\ Len(results) > 0

\* C3: with include_tfvars disabled no file matching *.tfvars, *.tfvars.json
\* or *.auto.tfvars is in the result; with it enabled every such file that is
\* not ignored is in the result once for each of the three patterns its name
\* matches (x.tfvars once, x.auto.tfvars twice), and an ignored one never;
\* the whole result is sorted.
C3_Tfvars ==
    pc = "idle" =>
        \A n \in 1..Len(results) :
            LET r == results[n]
            IN /\ ~include_tfvars =>
                      \A k \in 1..Len(r) : TfvarsMatches(Name(r[k])) = 0
               /\ include_tfvars =>
                      \A rel \in DOMAIN fs :
                          LET p == JoinPath(base_path, rel)
                          IN TfvarsMatches(Name(rel)) > 0 =>
                                 Count(p, r) =
                                     IF \E g \in default_ignore : IsSubstr(g, StrPath(p))
                                     THEN 0 ELSE TfvarsMatches(Name(rel))
               /\ \A j, k \in 1..Len(r) : j < k => ~PathLess(r[k], r[j])

C3_Witness ==
    /\ pc = "idle" /\ include_tfvars /\ Len(results) > 0
    /\ Count(<<<<"x",".","t","f","v","a","r","s">>>>, results[1]) = 1
    /\ Count(<<<<"x",".","a","u","t","o",".","t","f","v","a","r","s">>>>, results[1]) = 2
    /\ \E k \in 1..Len(results[1]) : Matches(Name(results[1][k]), TfPattern)

\* C6: when find_relevant_files returns, the ignore set is the set it was at
\* the start of the call, whatever the flags; `*.md` is missing from it only
\* inside the README pass; repeated calls on the unchanged tree return the
\* same result.
C6_IgnoreRestored ==
    /\ (pc \in {"find_return", "idle"} /\ Len(results) + (IF pc = "idle" THEN 0 ELSE 1) > 0)
           => default_ignore = ignore_at_call
    /\ MdPattern \notin default_ignore => pc \in {"readme_glob", "readme_add"}
    /\ pc # "raised"
    /\ \A n, m \in 1..Len(results) : results[n] = results[m]

C6_Witness ==
    /\ pc = "idle" /\ include_readme /\ Len(results) = 2
    /\ Count(<<<<"R","E","A","D","M","E",".","m","d">>>>, results[2]) = 1
    /\ MdPattern \in default_ignore

----------------------------------------------------------------------------
(* Properties of pack_files *)

\* where the first write of a kind is in the output
FirstIndex(kind) ==
    CHOOSE n \in 1..Len(output) :
        /\ output[n].kind = kind
        /\ \A m \in 1..(n - 1) : output[m].kind # kind

\* the four parts of a finished output: the leading banner, the structure
\* section, the content section and the trailing banner
LeadingPart == SubSeq(output, FirstIndex("!rule"), FirstIndex("!rule+blank"))

StructurePart ==
    SubSeq(output, FirstIndex("Repository Structure"), FirstIndex("File Contents") - 1)

ContentsPart ==
    SubSeq(output, FirstIndex("File Contents"), FirstIndex("blank+!rule") - 1)

TrailingPart == SubSeq(output, FirstIndex("blank+!rule"), Len(output))

IsWarningWrite(w) == w.kind = "- warning"

\* the warnings a part lists, in order
RECURSIVE WarningsIn(_)
WarningsIn(part) ==
    IF part = <<>> THEN <<>>
    ELSE (IF IsWarningWrite(Head(part)) THEN <<Head(part).warning>> ELSE <<>>)
         \o WarningsIn(Tail(part))

\* the relative path of the n-th discovered file
Rel(n) == RelativeTo(files[n], base_path)

\* the four writes of the n-th block of the content section
Block(n) == SubSeq(ContentsPart, 4 * n - 1, 4 * n + 2)

\* the text has a line that, trimmed, is the text of warning w
HasLineOf(text, w) ==
    \E n \in 1..Len(SplitLines(text)) : Strip(SplitLines(text)[n]) = w.text

\* part lists a warning equal to w
Lists(part, w) == \E n \in 1..Len(part) : IsWarningWrite(part[n]) /\ part[n].warning = w

\* the warnings of the first n reads of a pass, read by read; scanned(c) is
\* the text that was scanned when c was read
RECURSIVE PassWarnings(_, _, _)
PassWarnings(reads, scanned(_), n) ==
    IF n = 0 THEN <<>>
    ELSE PassWarnings(reads, scanned, n - 1)
         \o (IF reads[n].ok
             THEN LET ws == warn_about_potential_secrets(scanned(reads[n].content))
                  IN [k \in 1..Len(ws) |->
                         [path |-> Rel(n), line |-> ws[k].line, text |-> ws[k].text]]
             ELSE <<>>)

Raw(c) == c

Written(c) == IF remove_comments THEN remove_terraform_comments(c) ELSE c

PreScanList == PassWarnings(prescan_reads, Raw, Len(prescan_reads))

ContentPassList == PassWarnings(content_reads, Written, Len(content_reads))

\* a run with one discovered file that holds a flagged line, read twice
\* without failure and not changed in between
OneFlaggedFile ==
    /\ pc = "done"
    /\ Len(files) = 1
    /\ Failures = 0
    /\ mods = 0
    /\ PreScanList # <<>>

\* C5, as the specification states it: for any flags, the leading banner,
\* the content block and the trailing banner each contain a reference to the
\* warning of the one discovered file's flagged line.
C5_AsClaimed ==
    OneFlaggedFile =>
        LET pre == PreScanList
            block == Block(1)
            lead == LeadingPart
            trail == TrailingPart
        IN \E n \in 1..Len(pre) :
               /\ Lists(lead, pre[n])
               /\ block[3].kind = "content"
               /\ HasLineOf(block[3].text, pre[n])
               /\ Lists(trail, pre[n])

\* C5, amended: when the one discovered file is read without failure in
\* both passes and is not changed in between, then for any flags the leading
\* and the trailing banner each list every warning of its raw content; the
\* content block holds the flagged lines when comment stripping is disabled,
\* and with stripping enabled it holds only those that stripping leaves.
C5_WarningInAllSections ==
    OneFlaggedFile =>
        LET pre == PreScanList
            second == ContentPassList
            block == Block(1)
            lead == LeadingPart
            trail == TrailingPart
            lines == SplitLines(block[3].text)
        IN /\ \A n \in 1..Len(pre) :
                  /\ Lists(lead, pre[n])
                  /\ Lists(trail, pre[n])
                  /\ ~remove_comments => HasLineOf(block[3].text, pre[n])
           /\ block[3].kind = "content"
           /\ \A n \in 1..Len(second) :
                  /\ HasLineOf(block[3].text, second[n])
                  /\ Lists(trail, second[n])
           /\ \A n \in 1..Len(lines) :
                  (\E m \in 1..Len(keywords) : IsSubstr(keywords[m], Lower(lines[n])))
                      => \E k \in 1..Len(pre) : pre[k].text = Strip(lines[n])

C5_Witness ==
    /\ OneFlaggedFile
    /\ ~remove_comments
    /\ include_tfvars
    /\ Len(PreScanList) = 2

\* the relative paths of the writes of a kind in a part, in order
RECURSIVE PathsOf(_, _)
PathsOf(part, kind) ==
    IF part = <<>> THEN <<>>
    ELSE (IF Head(part).kind = kind THEN <<Head(part).path>> ELSE <<>>)
         \o PathsOf(Tail(part), kind)

\* the kinds of the writes of a sequence
Kinds(part) == [n \in 1..Len(part) |-> part[n].kind]

\* C7: the structure section has one line per discovered file and the
\* content section one `File:` block per discovered file, both in discovery
\* order with the same relative paths; on an empty discovery both sections
\* are empty, the title and both banners are written without a warning list,
\* and the run ends without an error.
C7_Sections ==
    /\ pc # "raised"
    /\ pc = "done" =>
           LET rels == [n \in 1..Len(files) |-> Rel(n)]
           IN /\ PathsOf(StructurePart, "structure line") = rels
              /\ Len(StructurePart) = 2 + Len(files)
              /\ PathsOf(ContentsPart, "File:") = rels
              /\ Len(ContentsPart) = 2 + 4 * Len(files)
              /\ \A n \in 1..Len(files) :
                     /\ Block(n)[1] = WritePath("File:", Rel(n))
                     /\ \A k \in 2..4 : Block(n)[k].kind # "File:"
              /\ files = <<>> =>
                     Kinds(output) =
                         << "title", "=rule", "!rule",
                            "IMPORTANT: VERIFY FOR SECRETS!", "Double-check this file",
                            "!rule+blank", "Repository Structure", "=rule20",
                            "File Contents", "=rule20", "blank+!rule",
                            "IMPORTANT: VERIFY FOR SECRETS!", "Double-check this file",
                            "!rule" >>

C7_Witness ==
    /\ pc = "done"
    /\ Len(files) = 3
    /\ base_path # <<>>
    /\ files[1] # files[2]

\* the console messages about reads that failed
ConsoleErrors ==
    SelectSeq(console, LAMBDA w : w.kind = "Error reading file for security check")

\* C8: a failed read never aborts pack_files: no read failure raises out of
\* it, and a run with failed reads ends with the trailing banner written and
\* one read made per file in each pass.  A failed read of the
\* first pass only prints a message and adds no warnings; a failed read of
\* the content pass leaves the `File:` line and its underline, with an error
\* text in place of the content, and prints nothing; the structure line, the
\* block and the warnings of every file that was read are what its own
\* content makes them.
C8_ReadFailures ==
    /\ pc # "raised"
    /\ Len(ConsoleErrors) =
           Cardinality({n \in 1..Len(prescan_reads) : ~prescan_reads[n].ok})
    /\ \A n \in 1..Len(output) : output[n].kind # "Error reading file for security check"
    /\ pc = "done" =>
           LET pre == PreScanList
               trail == TrailingPart
           IN /\ Kinds(trail)[Len(trail)] = "!rule"
              /\ Len(prescan_reads) = Len(files) /\ Len(content_reads) = Len(files)
              /\ WarningsIn(LeadingPart) = pre
              /\ WarningsIn(trail) = pre \o ContentPassList
              /\ PathsOf(StructurePart, "structure line") = [n \in 1..Len(files) |-> Rel(n)]
              /\ \A n \in 1..Len(console) :
                     console[n].kind \in {"Error reading file for security check",
                                          "!rule", "SECURITY WARNING", "- warning"}
              /\ \A n \in 1..Len(files) :
                     Block(n) =
                         << WritePath("File:", Rel(n)),
                            WriteCount("-underline", Len(StrPath(Rel(n))) + 6),
                            IF content_reads[n].ok
                            THEN WriteText("content", Written(content_reads[n].content))
                            ELSE WritePath("Error reading file", files[n]),
                            Write("blank") >>

C8_Witness ==
    /\ pc = "done"
    /\ Len(files) = 3
    /\ ~content_reads[2].ok
    /\ ContentPassList # <<>>
    /\ PreScanList # <<>>

\* s is an initial part of t
IsPrefix(s, t) == Len(s) <= Len(t) /\ SubSeq(t, 1, Len(s)) = s

\* C9: the accumulator only grows at its end; the leading banner lists
\* exactly the warnings of the first pass, found in the raw content, file by
\* file in discovery order; the trailing banner lists these followed by the
\* warnings of the content pass in discovery order; the first-pass list is
\* printed to the console exactly when it is not empty.
C9_Accumulator ==
    /\ IsPrefix(prev_warnings, all_warnings)
    /\ pc = "done" =>
           LET pre == PreScanList
               lead == WarningsIn(LeadingPart)
           IN /\ lead = pre
              /\ WarningsIn(TrailingPart) = lead \o ContentPassList
              /\ WarningsIn(console) = pre
              /\ (\E n \in 1..Len(console) : console[n].kind = "SECURITY WARNING")
                     <=> pre # <<>>

C9_Witness ==
    /\ pc = "done"
    /\ remove_comments
    /\ Len(files) = 3
    /\ Len(PreScanList) > Len(ContentPassList)
    /\ Len(ContentPassList) > 1

\* how often w occurs in the list ws
Occurrences(w, ws) == Cardinality({n \in 1..Len(ws) : ws[n] = w})

\* C10: with comment stripping disabled, no failed read and no change of a
\* file during the run, the trailing banner lists the leading banner's
\* warnings twice over: the leading list followed by a copy of it.
C10_Doubled ==
    (pc = "done" /\ ~remove_comments /\ Failures = 0 /\ mods = 0) =>
        LET lead == WarningsIn(LeadingPart)
            trail == WarningsIn(TrailingPart)
        IN /\ trail = lead \o lead
           /\ Len(trail) = 2 * Len(lead)
           /\ \A n \in 1..Len(trail) : Occurrences(trail[n], trail) % 2 = 0

C10_Witness ==
    /\ pc = "done" /\ ~remove_comments /\ Failures = 0 /\ mods = 0
    /\ Len(files) = 3
    /\ Len(WarningsIn(LeadingPart)) >= 3

====
